---------------------------- MODULE Spec2Model ----------------------------
(***************************************************************************)
(* A model of colorice's configuration module (src/colorice/config.py):    *)
(* ConfigFile.get (dotted lookup with %key% indirection) and the Config    *)
(* service (extension registry, provider cache, lookup-path search).       *)
(*                                                                         *)
(* Python strings are modelled as sequences of one-character strings, so   *)
(* that str.split, str.rsplit, str.format and re.search are computed the   *)
(* way the interpreter computes them.                                      *)
(***************************************************************************)
EXTENDS Integers, Sequences, FiniteSets, TLC

VARIABLES
    \* ---- ConfigFile.get ----
    raw_dict,       \* ConfigFile.raw_dict: the parsed tree (node id -> node)
    key0,           \* the key the caller passed to get
    fallback0,      \* the fallback the caller passed to get
    frames,         \* the stack of get invocations: <<[key, fallback], ...>>
    outcome,        \* what the caller's get call ended with, kind "none" while running
    \* ---- Config ----
    phase,              \* "new" before Config.__init__ ran, "ready" after
    provider_pool,      \* Config.provider_pool: <<extensions, provider>> items, in dict order
    available_extensions, \* Config._available_extensions: extension -> provider
    cached_providers,   \* Config._cached_providers: provider -> instance id
    disk,               \* the files on disk, in directory-listing order
    instantiations,     \* history: the provider of every TargetProvider() call, in order
    nextId,             \* the next fresh object identity
    calls,              \* the number of calls made on the service
    last,               \* the last call: its arguments and how it ended
    \* ---- two callers sharing one Config ----
    threads,            \* caller -> its position in parse_config_file and its locals
    overlapped          \* history: providers whose check-to-insert windows overlapped

getVars == <<raw_dict, key0, fallback0, frames, outcome>>

svcVars == <<phase, provider_pool, available_extensions, cached_providers, disk,
             instantiations, nextId, calls, last>>

concVars == <<threads, overlapped>>

vars == <<raw_dict, key0, fallback0, frames, outcome,
          phase, provider_pool, available_extensions, cached_providers, disk,
          instantiations, nextId, calls, last, threads, overlapped>>

-----------------------------------------------------------------------------
(* Bounds *)

\* The interpreter's recursion limit (sys.getrecursionlimit(), 1000 by
\* default), scaled down: the number of nested get frames allowed.
MaxDepth == 5

\* The number of calls made on one Config.
MaxCalls == 3

\* The number of files on disk.
MaxFiles == 2

\* The number of calls each of the two concurrent callers makes.
MaxThreadCalls == 2

-----------------------------------------------------------------------------
(* Python string primitives over sequences of characters *)

SetMin(S) == CHOOSE x \in S : \A y \in S : x <= y
SetMax(S) == CHOOSE x \in S : \A y \in S : x >= y

StartsWith(s, p) == Len(p) <= Len(s) /\ SubSeq(s, 1, Len(p)) = p

\* str.split(sep): the string is cut at every occurrence of sep, found left
\* to right without overlap; empty pieces are kept.
RECURSIVE Split(_, _)
Split(s, sep) ==
    LET at == {i \in 1..(Len(s) - Len(sep) + 1) :
                  SubSeq(s, i, i + Len(sep) - 1) = sep} IN
    IF at = {} THEN <<s>>
    ELSE LET i == SetMin(at) IN
         <<SubSeq(s, 1, i - 1)>> \o Split(SubSeq(s, i + Len(sep), Len(s)), sep)

\* key.split('.')
SplitDot(s) == Split(s, <<".">>)

\* str.rsplit('.', 1)[-1]: the text after the last '.', the whole string
\* when it holds no '.'.
RSplitLast(s) ==
    LET dots == {i \in 1..Len(s) : s[i] = "."} IN
    IF dots = {} THEN s ELSE SubSeq(s, SetMax(dots) + 1, Len(s))

Range(f) == {f[i] : i \in DOMAIN f}

\* A dict as a function; d[k] = v.
NoItems == [x \in {} |-> 0]
DictSet(d, k, v) == [x \in DOMAIN d \cup {k} |-> IF x = k THEN v ELSE d[x]]

RECURSIVE Concat(_)
Concat(ss) == IF ss = <<>> THEN <<>> ELSE Head(ss) \o Concat(Tail(ss))

\* The search with the pattern %(.*)% : an empty group matches too.
ReSearchEmptyGroup(s) ==
    LET starts == {i \in 1..Len(s) :
                      /\ s[i] = "%"
                      /\ \E j \in (i + 1)..Len(s) : s[j] = "%"} IN
    IF starts = {} THEN [found |-> FALSE, group |-> <<>>]
    ELSE LET i == SetMin(starts)
             j == SetMax({k \in (i + 1)..Len(s) : s[k] = "%"})
         IN [found |-> TRUE, group |-> SubSeq(s, i + 1, j - 1)]

\* re.search(r'%(.+)%', s): the leftmost '%' that has a later '%' with at
\* least one character between them; '.+' is greedy, so the group runs to
\* the last '%' of the string.  (No value of the model holds a newline.)
ReSearch(s) ==
    LET starts == {i \in 1..Len(s) :
                      /\ s[i] = "%"
                      /\ \E j \in (i + 2)..Len(s) : s[j] = "%"} IN
    IF starts = {} THEN [found |-> FALSE, group |-> <<>>]
    ELSE LET i == SetMin(starts)
             j == SetMax({k \in (i + 2)..Len(s) : s[k] = "%"})
         IN [found |-> TRUE, group |-> SubSeq(s, i + 1, j - 1)]

-----------------------------------------------------------------------------
(* Trees: what a provider's parse returns *)

\* A node of the parsed tree.  kind is the Python type of the value; str is
\* the text of a str, kids the items of a dict as <<key, node id>> pairs.
Node(k, s, ks) == [kind |-> k, str |-> s, kids |-> ks]

Absent == Node("absent", <<>>, {})

A == <<"a">>
B == <<"b">>
C == <<"c">>
AC == <<"a", ".", "c">>
BC == <<"b", ".", "c">>
ACC == <<"a", ".", "c", ".", "c">>

Alias(k) == <<"%">> \o k \o <<"%">>

StrVals ==
    {<<"x">>, <<"%", "%">>, <<"x">> \o Alias(B) \o <<"x">>}
        \cup {Alias(k) : k \in {A, B, C, AC}}

Leaves ==
    {Node(k, <<>>, {}) : k \in {"int", "bool", "none", "list"}}
        \cup {Node("str", s, {}) : s \in StrVals}

\* Node ids: 1 the root, 2 root['a'], 3 root['b'], 4 root['c'], 5 root['a']['c'].
RootId == 1

Kid(f, id, n) == IF n = Absent THEN {} ELSE {<<f, id>>}

MkTree(na, nb, nc, nac) ==
    << Node("dict", <<>>, Kid(A, 2, na) \cup Kid(B, 3, nb) \cup Kid(C, 4, nc)),
       IF na.kind = "dict" THEN Node("dict", <<>>, Kid(C, 5, nac)) ELSE na,
       nb, nc, nac >>

EmptyDict == Node("dict", <<>>, {})

\* A file that parses to None (an empty YAML document).
NoneTree == << Node("none", <<>>, {}), Absent, Absent, Absent, Absent >>

Trees ==
    {MkTree(na, nb, nc, Absent) :
        na \in Leaves \cup {Absent, EmptyDict}, nb \in Leaves \cup {Absent},
        nc \in Leaves \cup {Absent}}
    \cup {MkTree(EmptyDict, nb, nc, nac) :
        nb \in Leaves \cup {Absent}, nc \in Leaves \cup {Absent}, nac \in Leaves}
    \cup {NoneTree}

\* '.'.join(fragments)
RECURSIVE JoinDot(_)
JoinDot(fs) ==
    IF Len(fs) = 0 THEN <<>>
    ELSE IF Len(fs) = 1 THEN fs[1]
    ELSE fs[1] \o <<".">> \o JoinDot(Tail(fs))

\* The keys a caller asks for, as fragment lists and as dotted strings.
QueryFrags == {<<A>>, <<B>>, <<C>>, <<A, C>>, <<B, C>>, <<A, C, C>>}

QueryKeys == {JoinDot(fs) : fs \in QueryFrags}

Fallbacks == {"None", "FB"}

-----------------------------------------------------------------------------
(* ConfigFile.get *)

Ok(n) == [status |-> "ok", node |-> n]
Err(e) == [status |-> e, node |-> 0]

\* tmp[fragment]: a dict yields the item or raises KeyError; a str, an int,
\* a bool, None and a list raise TypeError when indexed by a str.
Subscript(t, n, f) ==
    IF t[n].kind = "dict"
    THEN IF \E e \in t[n].kids : e[1] = f
         THEN Ok((CHOOSE e \in t[n].kids : e[1] = f)[2])
         ELSE Err("KeyError")
    ELSE Err("TypeError")

\* for fragment in key.split('.'): tmp = tmp[fragment]
RECURSIVE Descend(_, _, _)
Descend(t, n, frags) ==
    IF frags = <<>> THEN Ok(n)
    ELSE LET r == Subscript(t, n, Head(frags)) IN
         IF r.status # "ok" THEN r ELSE Descend(t, r.node, Tail(frags))

\* isinstance(tmp, str)
IsStr(node) == node.kind = "str"

\* The fallback the recursive call is given: self.get(match.group(1), fallback)
RecurseFallback(fb) == fb

\* The try block of one invocation of get: what it does for key on tree t.
Body(t, key) ==
    LET r == Descend(t, RootId, SplitDot(key)) IN
    IF r.status # "ok" THEN [kind |-> r.status, node |-> 0, key |-> <<>>]
    ELSE LET m == IF IsStr(t[r.node]) THEN ReSearch(t[r.node].str)
                  ELSE [found |-> FALSE, group |-> <<>>] IN
         IF m.found THEN [kind |-> "recurse", node |-> 0, key |-> m.group]
         ELSE [kind |-> "return", node |-> r.node, key |-> <<>>]

Top == frames[Len(frames)]
Running == outcome.kind = "none"
Step == Body(raw_dict, Top.key)

Outcome(k, n, fb) == [kind |-> k, node |-> n, fb |-> fb]

GetInputs ==
    /\ raw_dict \in Trees
    /\ key0 \in QueryKeys
    /\ fallback0 \in Fallbacks
    /\ frames = <<[key |-> key0, fallback |-> fallback0]>>
    /\ outcome = Outcome("none", 0, "None")

\* return tmp
GetReturn ==
    /\ Running /\ Step.kind = "return"
    /\ outcome' = Outcome("value", Step.node, "None")
    /\ UNCHANGED <<raw_dict, key0, fallback0, frames>>
    /\ UNCHANGED <<svcVars, concVars>>

\* except KeyError: return fallback
GetFallback ==
    /\ Running /\ Step.kind = "KeyError"
    /\ outcome' = Outcome("fallback", 0, Top.fallback)
    /\ UNCHANGED <<raw_dict, key0, fallback0, frames>>
    /\ UNCHANGED <<svcVars, concVars>>

\* A TypeError is not caught here nor in any outer frame (each is inside
\* try ... except KeyError), so it reaches the caller.
GetTypeError ==
    /\ Running /\ Step.kind = "TypeError"
    /\ outcome' = Outcome("TypeError", 0, "None")
    /\ UNCHANGED <<raw_dict, key0, fallback0, frames>>
    /\ UNCHANGED <<svcVars, concVars>>

\* return self.get(match.group(1), fallback): a new frame; its result is
\* returned unchanged through every outer frame.
GetRecurse ==
    /\ Running /\ Step.kind = "recurse"
    /\ Len(frames) < MaxDepth
    /\ frames' = Append(frames, [key |-> Step.key,
                                 fallback |-> RecurseFallback(Top.fallback)])
    /\ UNCHANGED <<raw_dict, key0, fallback0, outcome>>
    /\ UNCHANGED <<svcVars, concVars>>

\* The recursive call at the interpreter's recursion limit raises
\* RecursionError, which no frame catches.
GetRecursionError ==
    /\ Running /\ Step.kind = "recurse"
    /\ Len(frames) >= MaxDepth
    /\ outcome' = Outcome("RecursionError", 0, "None")
    /\ UNCHANGED <<raw_dict, key0, fallback0, frames>>
    /\ UNCHANGED <<svcVars, concVars>>

NextGet ==
    \/ GetReturn
    \/ GetFallback
    \/ GetTypeError
    \/ GetRecurse
    \/ GetRecursionError

-----------------------------------------------------------------------------
(* Config: names, paths and files *)

YAML == <<"y", "a", "m", "l">>
YML == <<"y", "m", "l">>
INI == <<"i", "n", "i">>
BAK == <<"b", "a", "k">>

Dot(p, e) == p \o <<".">> \o e

\* Two lookup prefixes a caller may pass, and HOME.
X == <<"/", "x", "/", "c", "f", "g">>
Y == <<"/", "y", "/", "c", "f", "g">>
HOME == <<"/", "h">>

\* settings.CONFIG_PATHS: ('{}/.config/colorice/config.yaml'.format(HOME),),
\* with .config/colorice/config shortened to .c/cfg.
CONFIG_PATHS == << HOME \o <<"/", ".", "c", "/", "c", "f", "g", ".">> \o YAML >>

\* A Python value passed as config_path or held in lookup_paths: None, a
\* str, or a list of str.
PyNone == [kind |-> "none", items |-> <<>>]
PyStr(s) == [kind |-> "str", items |-> <<s>>]
PyList(ss) == [kind |-> "list", items |-> ss]

Files ==
    {Dot(X, YAML), Dot(X, YML), Dot(X, INI), X, Dot(Y, YML),
     CONFIG_PATHS[1], Dot(CONFIG_PATHS[1], BAK)}

\* Directory listings: every order of up to MaxFiles files.
RECURSIVE Listings(_)
Listings(n) ==
    IF n = 0 THEN {<<>>}
    ELSE Listings(n - 1) \cup
         {Append(l, f) : l \in {m \in Listings(n - 1) : Len(m) = n - 1},
                         f \in Files}

NoRepeat(l) == \A i, j \in DOMAIN l : l[i] = l[j] => i = j

FileSystems == {l \in Listings(MaxFiles) : NoRepeat(l)}

\* The paths a caller hands to parse_config_file.
ParsePaths == Files \cup {YAML, Dot(Y, INI)}

\* The values a caller hands to load_configuration.
LoadArgs == {PyNone, PyStr(X), PyStr(Y), PyList(<<X, Y>>), PyList(<<Y>>)}

YamlProvider == "colorice.config.YamlConfigProvider"
IniProvider == "custom_package.module.MyIniConfigProvider"
NoSuchProvider == "custom_package.missing.Provider"

\* import_mod_part(modpath) succeeds for the modules that exist.
Importable(cls) == cls # NoSuchProvider

\* Config._available_providers
DefaultPool == << << YAML \o <<",", " ">> \o YML, YamlProvider >> >>

Pools ==
    { DefaultPool,
      Append(DefaultPool, <<INI, IniProvider>>),
      Append(DefaultPool, <<INI, NoSuchProvider>>) }

-----------------------------------------------------------------------------
(* Config *)

\* The split with ',' alone as the separator.
SplitExtensionsOnComma(extensions) == Split(extensions, <<",">>)

\* extensions.split(', ')
SplitExtensions(extensions) == Split(extensions, <<",", " ">>)

\* for ext in extensions.split(', '): parsed[ext] = provider
RECURSIVE AddExtensions(_, _, _)
AddExtensions(parsed, exts, provider) ==
    IF exts = <<>> THEN parsed
    ELSE AddExtensions(DictSet(parsed, Head(exts), provider), Tail(exts), provider)

\* for extensions, provider in self.provider_pool.items(): ...
RECURSIVE AddPoolItems(_, _)
AddPoolItems(parsed, items) ==
    IF items = <<>> THEN parsed
    ELSE AddPoolItems(
            AddExtensions(parsed, SplitExtensions(Head(items)[1]), Head(items)[2]),
            Tail(items))

get_available_extensions(pool) == AddPoolItems(NoItems, pool)

\* ext = path.rsplit('.', 1)[-1]
ExtOf(path) == RSplitLast(path)

\* repr of a list of str: ['a', 'b']
RECURSIVE ReprItems(_)
ReprItems(ss) ==
    IF ss = <<>> THEN <<>>
    ELSE <<"'">> \o Head(ss) \o <<"'">>
         \o (IF Len(ss) > 1 THEN <<",", " ">> ELSE <<>>) \o ReprItems(Tail(ss))

\* '{}'.format(path): a str as it is, a list as its repr.
Format(v) ==
    IF v.kind = "str" THEN v.items[1]
    ELSE IF v.kind = "list" THEN <<"[">> \o ReprItems(v.items) \o <<"]">>
    ELSE <<"N", "o", "n", "e">>

\* '{}*'.format(path)
Pattern(v) == Format(v) \o <<"*">>

\* glob.glob(prefix + '*'): the files whose path continues the prefix within
\* its last component ('*' matches no '/', and no leading '.' of a
\* component), in listing order.  Every file of the model is absolute, so
\* the '[' that opens the repr of a list is alone in its path component (the
\* quote after it is followed by '/'): glob takes an unclosed '[' literally.
GlobMatches(f, prefix) ==
    /\ StartsWith(f, prefix)
    /\ \A i \in (Len(prefix) + 1)..Len(f) : f[i] # "/"
    /\ (prefix = <<>> \/ prefix[Len(prefix)] = "/")
          => (Len(f) > Len(prefix) => f[Len(prefix) + 1] # ".")

Glob(files, pattern) ==
    LET prefix == SubSeq(pattern, 1, Len(pattern) - 1) IN
    SelectSeq(files, LAMBDA f : GlobMatches(f, prefix))

\* The lookup paths with CONFIG_PATHS ahead of the caller's path.
LookupPathsDefaultsFirst(config_path) ==
    [i \in DOMAIN CONFIG_PATHS |-> PyStr(CONFIG_PATHS[i])]
        \o (IF config_path # PyNone THEN <<config_path>> ELSE <<>>)

\* lookup_paths: config_path wrapped into a one-element list when given,
\* then CONFIG_PATHS.
LookupPaths(config_path) ==
    (IF config_path # PyNone THEN <<config_path>> ELSE <<>>)
        \o [i \in DOMAIN CONFIG_PATHS |-> PyStr(CONFIG_PATHS[i])]

\* The files the two nested loops visit, in order.
Visited(config_path) ==
    LET paths == LookupPaths(config_path) IN
    Concat([i \in DOMAIN paths |-> Glob(disk, Pattern(paths[i]))])

\* The loop body: the first file whose extension is registered ends the
\* search; every file before it is skipped with a warning.
RECURSIVE Search(_, _)
Search(files, skipped) ==
    IF files = <<>> THEN [found |-> FALSE, file |-> <<>>, skipped |-> skipped]
    ELSE IF ExtOf(Head(files)) \in DOMAIN available_extensions
         THEN [found |-> TRUE, file |-> Head(files), skipped |-> skipped]
         ELSE Search(Tail(files), Append(skipped, Head(files)))

\* What a call did: op and arg name it; result is "ConfigFile", "None" or
\* the exception raised; parsed is the path handed to provider.parse, cf the
\* identity of the ConfigFile returned, provider the instance used, skipped
\* the files passed over with a warning.
Call(op, arg, result, parsed, cf, provider, skipped) ==
    [op |-> op, arg |-> arg, result |-> result, parsed |-> parsed,
     cf |-> cf, provider |-> provider, skipped |-> skipped]

NoCall == Call("none", PyNone, "None", <<>>, 0, 0, <<>>)

\* An unregistered extension answered with None instead of an exception.
UnsupportedReturnsNone == "None"

\* How an unregistered extension ends parse_config_file: raise ValueError(...)
UnsupportedResult == "ValueError"

\* A cache lookup that never finds the provider.
CacheHitNever(cache, cls) == FALSE

\* An insert that leaves the cache as it was.
CacheInsertForgotten(cache, cls, provider) == cache

\* provider_cls in self._cached_providers
CacheHit(cache, cls) == cls \in DOMAIN cache

\* self._cached_providers[provider_cls] = provider
CacheInsert(cache, cls, provider) == DictSet(cache, cls, provider)

\* raw = provider.parse(path); return ConfigFile(path, raw), with the cache
\* and the instantiation history as the lines before left them.  parse
\* raises when the file cannot be opened, and may raise on its content;
\* ConfigFile's own check that the path exists passes for a file just read.
ParseAndWrap(path, provider, cache, inst, id, op, arg, skipped) ==
    /\ cached_providers' = cache
    /\ instantiations' = inst
    /\ \/ /\ path \in Range(disk)
          /\ last' = Call(op, arg, "ConfigFile", path, id, provider, skipped)
          /\ nextId' = id + 1
       \/ /\ last' = Call(op, arg, "ParseError", path, 0, provider, skipped)
          /\ nextId' = id

\* The body of parse_config_file(path), called by op with arg.
parse_config_file(path, op, arg, skipped) ==
    LET ext == ExtOf(path) IN
    \/ /\ ext \notin DOMAIN available_extensions
       /\ last' = Call(op, arg, UnsupportedResult, <<>>, 0, 0, skipped)
       /\ UNCHANGED <<cached_providers, instantiations, nextId>>
    \/ /\ ext \in DOMAIN available_extensions
       /\ CacheHit(cached_providers, available_extensions[ext])
       /\ ParseAndWrap(path, cached_providers[available_extensions[ext]],
                       cached_providers, instantiations, nextId, op, arg, skipped)
    \/ /\ ext \in DOMAIN available_extensions
       /\ ~CacheHit(cached_providers, available_extensions[ext])
       /\ ~Importable(available_extensions[ext])
       /\ last' = Call(op, arg, "ImportError", <<>>, 0, 0, skipped)
       /\ UNCHANGED <<cached_providers, instantiations, nextId>>
    \/ /\ ext \in DOMAIN available_extensions
       /\ ~CacheHit(cached_providers, available_extensions[ext])
       /\ Importable(available_extensions[ext])
       /\ LET cls == available_extensions[ext] IN
          ParseAndWrap(path, nextId,
                       CacheInsert(cached_providers, cls, nextId),
                       Append(instantiations, cls), nextId + 1, op, arg, skipped)

NoThreads == [t \in {} |-> 0]

ServiceInit(pools, systems) ==
    /\ phase = "new"
    /\ provider_pool \in pools
    /\ available_extensions = NoItems
    /\ cached_providers = NoItems
    /\ disk \in systems
    /\ instantiations = <<>>
    /\ nextId = 1
    /\ calls = 0
    /\ last = NoCall

\* A ConfigFile.get that is not running.
GetIdle ==
    /\ raw_dict = NoneTree
    /\ key0 = <<>>
    /\ fallback0 = "None"
    /\ frames = <<>>
    /\ outcome = Outcome("idle", 0, "None")

\* Config.__init__
Config_init ==
    /\ phase = "new"
    /\ phase' = "ready"
    /\ available_extensions' = get_available_extensions(provider_pool)
    /\ UNCHANGED <<provider_pool, cached_providers, disk, instantiations, nextId,
                   calls, last>>
    /\ UNCHANGED <<getVars, concVars>>

\* A caller's parse_config_file(path)
CallParseConfigFile ==
    /\ phase = "ready" /\ calls < MaxCalls
    /\ \E path \in ParsePaths :
          parse_config_file(path, "parse_config_file", PyStr(path), <<>>)
    /\ calls' = calls + 1
    /\ UNCHANGED <<phase, provider_pool, available_extensions, disk>>
    /\ UNCHANGED <<getVars, concVars>>

\* A caller's load_configuration(config_path)
load_configuration ==
    /\ phase = "ready" /\ calls < MaxCalls
    /\ \E config_path \in LoadArgs :
          LET s == Search(Visited(config_path), <<>>) IN
          \/ /\ s.found
             /\ parse_config_file(s.file, "load_configuration", config_path, s.skipped)
          \/ /\ ~s.found
             /\ last' = Call("load_configuration", config_path, "None", <<>>, 0, 0,
                             s.skipped)
             /\ UNCHANGED <<cached_providers, instantiations, nextId>>
    /\ calls' = calls + 1
    /\ UNCHANGED <<phase, provider_pool, available_extensions, disk>>
    /\ UNCHANGED <<getVars, concVars>>

ThreadsIdle ==
    /\ threads = NoThreads
    /\ overlapped = {}

Init ==
    /\ ServiceInit(Pools, FileSystems)
    /\ GetIdle
    /\ ThreadsIdle

Next ==
    \/ Config_init
    \/ CallParseConfigFile
    \/ load_configuration

Spec == Init /\ [][Next]_vars

ServiceIdle ==
    /\ ServiceInit({DefaultPool}, {<<>>})

InitGet ==
    /\ GetInputs
    /\ ServiceIdle
    /\ ThreadsIdle

SpecGet == InitGet /\ [][NextGet]_vars

-----------------------------------------------------------------------------
(* Registry construction over many pools *)

\* Pool keys: one extension, or extensions joined by ', ', ',', ' ' or ',  '.
Separators == { <<",", " ">>, <<",">>, <<" ">>, <<",", " ", " ">> }

PoolKeys ==
    {YAML, YML, INI, YAML \o <<",", " ">> \o YML \o <<",", " ">> \o INI}
        \cup {p[1] \o sep \o p[2] :
                p \in {<<YAML, YML>>, <<YML, INI>>, <<INI, YAML>>},
                sep \in Separators}

ManyPools ==
    {<<>>}
        \cup {<< <<k, YamlProvider>> >> : k \in PoolKeys}
        \cup {<< <<ks[1], YamlProvider>>, <<ks[2], IniProvider>> >> :
                ks \in {p \in PoolKeys \X PoolKeys : p[1] # p[2]}}

InitReg ==
    /\ ServiceInit(ManyPools, {<<>>})
    /\ GetIdle
    /\ ThreadsIdle

NextReg == Config_init

SpecReg == InitReg /\ [][NextReg]_vars

-----------------------------------------------------------------------------
(* Two callers sharing one Config: parse_config_file line by line *)

Callers == {"t1", "t2"}

\* A caller: pc is its place in parse_config_file, path, cls (provider_cls)
\* and provider its locals, result how its last call ended, n its calls.
Thread(pc, path, cls, provider, result, n) ==
    [pc |-> pc, path |-> path, cls |-> cls, provider |-> provider,
     result |-> result, n |-> n]

\* The caller is back from its call, its locals gone.
Returned(t, result) ==
    [threads EXCEPT ![t] = Thread("idle", <<>>, "", 0, result, threads[t].n)]

ConcPaths == {Dot(X, YAML), Dot(X, YML), Dot(X, INI), X}

InitConc ==
    /\ phase = "ready"
    /\ provider_pool \in Pools
    /\ available_extensions = get_available_extensions(provider_pool)
    /\ cached_providers = NoItems
    /\ disk = << Dot(X, YAML), Dot(X, YML), Dot(X, INI) >>
    /\ instantiations = <<>>
    /\ nextId = 1
    /\ calls = 0
    /\ last = NoCall
    /\ threads = [t \in Callers |-> Thread("idle", <<>>, "", 0, "", 0)]
    /\ overlapped = {}
    /\ GetIdle

concFrame ==
    /\ UNCHANGED <<phase, provider_pool, available_extensions, disk, calls, last>>
    /\ UNCHANGED getVars

\* Lines 270-275: the extension is looked up; an unregistered one raises.
T_Enter(t) ==
    /\ threads[t].pc = "idle" /\ threads[t].n < MaxThreadCalls
    /\ \E path \in ConcPaths :
          LET ext == ExtOf(path) IN
          \/ /\ ext \notin DOMAIN available_extensions
             /\ threads' = [threads EXCEPT ![t] =
                    Thread("idle", <<>>, "", 0, UnsupportedResult, threads[t].n + 1)]
          \/ /\ ext \in DOMAIN available_extensions
             /\ threads' = [threads EXCEPT ![t] =
                    Thread("check", path, available_extensions[ext], 0, "",
                           threads[t].n + 1)]
    /\ UNCHANGED <<cached_providers, instantiations, nextId, overlapped>>
    /\ concFrame

\* Lines 276-277: if provider_cls in self._cached_providers: provider = ...
\* A miss while another caller is between its own miss and its insert for
\* the same provider is recorded in overlapped.
T_Check(t) ==
    /\ threads[t].pc = "check"
    /\ \/ /\ CacheHit(cached_providers, threads[t].cls)
          /\ threads' = [threads EXCEPT ![t].pc = "parse",
                                        ![t].provider = cached_providers[threads[t].cls]]
          /\ UNCHANGED overlapped
       \/ /\ ~CacheHit(cached_providers, threads[t].cls)
          /\ threads' = [threads EXCEPT ![t].pc = "instantiate"]
          /\ overlapped' =
                IF \E u \in Callers \ {t} :
                      /\ threads[u].pc \in {"instantiate", "insert"}
                      /\ threads[u].cls = threads[t].cls
                THEN overlapped \cup {threads[t].cls}
                ELSE overlapped
    /\ UNCHANGED <<cached_providers, instantiations, nextId>>
    /\ concFrame

\* Lines 279-280: TargetProvider = import_mod_part(provider_cls);
\* provider = TargetProvider()
T_Instantiate(t) ==
    /\ threads[t].pc = "instantiate"
    /\ \/ /\ Importable(threads[t].cls)
          /\ threads' = [threads EXCEPT ![t].pc = "insert", ![t].provider = nextId]
          /\ instantiations' = Append(instantiations, threads[t].cls)
          /\ nextId' = nextId + 1
       \/ /\ ~Importable(threads[t].cls)
          /\ threads' = Returned(t, "ImportError")
          /\ UNCHANGED <<instantiations, nextId>>
    /\ UNCHANGED <<cached_providers, overlapped>>
    /\ concFrame

\* Line 281: self._cached_providers[provider_cls] = provider
T_Insert(t) ==
    /\ threads[t].pc = "insert"
    /\ cached_providers' =
          CacheInsert(cached_providers, threads[t].cls, threads[t].provider)
    /\ threads' = [threads EXCEPT ![t].pc = "parse"]
    /\ UNCHANGED <<instantiations, nextId, overlapped>>
    /\ concFrame

\* Lines 283-284: raw = provider.parse(path); return ConfigFile(path, raw)
T_Parse(t) ==
    /\ threads[t].pc = "parse"
    /\ \/ /\ threads[t].path \in Range(disk)
          /\ threads' = Returned(t, "ConfigFile")
       \/ /\ threads' = Returned(t, "ParseError")
    /\ UNCHANGED <<cached_providers, instantiations, nextId, overlapped>>
    /\ concFrame

NextConc ==
    \E t \in Callers :
        \/ T_Enter(t)
        \/ T_Check(t)
        \/ T_Instantiate(t)
        \/ T_Insert(t)
        \/ T_Parse(t)

SpecConc == InitConc /\ [][NextConc]_vars

-----------------------------------------------------------------------------
(* What a tree stores, stated without running get *)

\* Node n is reached from the root by the fragments fs, every step through
\* a dict item.
RECURSIVE PathTo(_, _, _)
PathTo(t, fs, n) ==
    IF fs = <<>> THEN n = RootId
    ELSE \E m \in DOMAIN t :
            /\ t[m].kind = "dict"
            /\ <<fs[Len(fs)], n>> \in t[m].kids
            /\ PathTo(t, SubSeq(fs, 1, Len(fs) - 1), m)

\* Key k (dotted) is present in the tree and node n is the value stored there.
Stored(k, n) ==
    \E fs \in QueryFrags : JoinDot(fs) = k /\ PathTo(raw_dict, fs, n)

\* Key k is absent from the tree: no value is stored at its path.
AbsentKey(k) == ~ \E n \in DOMAIN raw_dict : Stored(k, n)

\* Descending k meets a dict that lacks the next fragment.
MissingInMapping(k) ==
    \E fs \in QueryFrags : \E i \in 0..(Len(fs) - 1) : \E m \in DOMAIN raw_dict :
        /\ JoinDot(fs) = k
        /\ PathTo(raw_dict, SubSeq(fs, 1, i), m)
        /\ raw_dict[m].kind = "dict"
        /\ ~ \E e \in raw_dict[m].kids : e[1] = fs[i + 1]

\* Descending k meets a value that is not a dict while fragments remain.
MeetsNonMapping(k) ==
    \E fs \in QueryFrags : \E i \in 0..(Len(fs) - 1) : \E m \in DOMAIN raw_dict :
        /\ JoinDot(fs) = k
        /\ PathTo(raw_dict, SubSeq(fs, 1, i), m)
        /\ raw_dict[m].kind # "dict"

\* The string holds a %...% placeholder: two '%' with a character between.
HasPlaceholder(s) ==
    \E i, j \in 1..Len(s) : j >= i + 2 /\ s[i] = "%" /\ s[j] = "%"

NonAlias(n) ==
    ~ (raw_dict[n].kind = "str" /\ HasPlaceholder(raw_dict[n].str))

HoldsAlias(k, k2) ==
    \E n \in DOMAIN raw_dict :
        Stored(k, n) /\ raw_dict[n] = Node("str", Alias(k2), {})

\* Following the aliases from key comes back to a key already looked up.
RECURSIVE Revisits(_, _, _)
Revisits(t, key, seen) ==
    IF key \in seen THEN TRUE
    ELSE IF Body(t, key).kind # "recurse" THEN FALSE
    ELSE Revisits(t, Body(t, key).key, seen \cup {key})

-----------------------------------------------------------------------------
(* Claims about ConfigFile.get *)

\* C1: get never raises for a missing or malformed key path: when the
\* descent of the key meets a dict that lacks the fragment, or a value that
\* is not a dict while fragments remain, get returns exactly the fallback.
C1_NeverRaises ==
    (~Running /\ (MissingInMapping(key0) \/ MeetsNonMapping(key0)))
        => outcome = Outcome("fallback", 0, fallback0)

\* The part of C1 the code keeps: a fragment missing from a dict yields the
\* fallback.
C1_MissingInMappingFallsBack ==
    (~Running /\ MissingInMapping(key0))
        => outcome = Outcome("fallback", 0, fallback0)

\* C2: a key whose fragments all exist along nested dicts returns exactly
\* the stored value (None, False, 0, lists and dicts included), never the
\* fallback, when the stored value is not a string with a %...% placeholder.
C2_PresentKeyReturnsStored ==
    \A n \in DOMAIN raw_dict :
        (~Running /\ Stored(key0, n) /\ NonAlias(n))
            => outcome = Outcome("value", n, "None")

\* A stored None at the nested key a.c was returned, with a fallback given.
C2_Witness ==
    /\ outcome = Outcome("value", 5, "None")
    /\ key0 = AC /\ fallback0 = "FB"
    /\ raw_dict[5].kind = "none"

Chains ==
    {<<k1, k2>> : k1 \in QueryKeys, k2 \in QueryKeys}
        \cup {<<k1, k2, k3>> : k1 \in QueryKeys, k2 \in QueryKeys, k3 \in QueryKeys}

IsChain(ch) ==
    \A i \in 1..(Len(ch) - 1) : HoldsAlias(ch[i], ch[i + 1])

\* C3: alias chains resolve transitively: when k1 holds "%k2%", ..., and kn
\* holds a non-alias value v, get(k1) returns v; when the last key of the
\* chain is absent from the tree, get(k1, fallback) returns the caller's
\* fallback.
C3_ChainResolves ==
    \A ch \in Chains :
        (~Running /\ key0 = ch[1] /\ IsChain(ch))
            => /\ \A n \in DOMAIN raw_dict :
                    (Stored(ch[Len(ch)], n) /\ NonAlias(n))
                        => outcome = Outcome("value", n, "None")
               /\ AbsentKey(ch[Len(ch)])
                    => outcome = Outcome("fallback", 0, fallback0)

\* The part of C3 the code keeps: the chain resolves to v, and a last key
\* missing from a dict yields the caller's fallback.
C3_ChainResolvesKeyed ==
    \A ch \in Chains :
        (~Running /\ key0 = ch[1] /\ IsChain(ch))
            => /\ \A n \in DOMAIN raw_dict :
                    (Stored(ch[Len(ch)], n) /\ NonAlias(n))
                        => outcome = Outcome("value", n, "None")
               /\ MissingInMapping(ch[Len(ch)])
                    => outcome = Outcome("fallback", 0, fallback0)

\* A chain of three keys resolved to a stored value.
C3_ChainOfThree ==
    /\ key0 = B /\ IsChain(<<B, C, AC>>)
    /\ outcome = Outcome("value", 5, "None")

\* C9: get ends with a value or the fallback if and only if the aliases
\* followed from the key never revisit a key.
C9_YieldsIffAcyclic ==
    ~Running =>
        (outcome.kind \in {"value", "fallback"} <=> ~Revisits(raw_dict, key0, {}))

\* The part of C9 the code keeps: a chain that revisits a key recurses up
\* to the recursion limit and yields neither a value nor the fallback; a
\* chain that does not never reaches the limit.
C9_CycleNeverYields ==
    IF Revisits(raw_dict, key0, {})
    THEN outcome.kind \in {"none", "RecursionError"}
    ELSE outcome.kind # "RecursionError"

\* A mutually-referential pair (b holds "%c%", c holds "%b%") ran into the
\* recursion limit.
C9_MutualPair ==
    /\ HoldsAlias(B, C) /\ HoldsAlias(C, B) /\ key0 = B
    /\ outcome.kind = "RecursionError"

-----------------------------------------------------------------------------
(* What paths and pool keys say, stated without the code's string calls *)

\* The final dot-delimited suffix of a path: what follows its last '.', the
\* whole path when it holds no '.'.
FinalSuffix(path) ==
    IF \A i \in 1..Len(path) : path[i] # "." THEN path
    ELSE LET i == CHOOSE k \in 1..Len(path) :
                      /\ path[k] = "."
                      /\ \A m \in (k + 1)..Len(path) : path[m] # "."
         IN [m \in 1..(Len(path) - i) |-> path[i + m]]

Registered(path) == FinalSuffix(path) \in DOMAIN available_extensions

\* The files an ordered list of prefixes visits: per prefix, the files that
\* match prefix*, in expansion order.
VisitOf(prefixes) ==
    Concat([i \in DOMAIN prefixes |-> Glob(disk, prefixes[i] \o <<"*">>)])

\* The last call was a load_configuration that searched these prefixes: it
\* skipped every file before the first one with a registered suffix, handed
\* that file and no other to parse_config_file, and returned None exactly
\* when no visited file has a registered suffix.
FirstMatchWins(prefixes) ==
    LET v == VisitOf(prefixes)
        eligible == {i \in 1..Len(v) : Registered(v[i])}
    IN IF eligible = {}
       THEN /\ last.result = "None"
            /\ last.parsed = <<>>
            /\ last.skipped = v
       ELSE LET i == CHOOSE k \in eligible : \A m \in eligible : k <= m IN
            /\ last.result \in {"ConfigFile", "ParseError", "ImportError"}
            /\ last.result = "ConfigFile" => (last.parsed = v[i] /\ last.cf # 0)
            /\ last.result = "ParseError" => last.parsed = v[i]
            /\ last.result = "ImportError" =>
                  ~Importable(available_extensions[FinalSuffix(v[i])])
            /\ last.skipped = [m \in 1..(i - 1) |-> v[m]]

Count(seq, x) == Cardinality({i \in DOMAIN seq : seq[i] = x})

\* The extensions a pool key lists, its separator being exactly ', ': the
\* stretches between occurrences of ', ' (and the ends of the key).
CommaSpaceAt(key, i) ==
    i >= 1 /\ i + 1 <= Len(key) /\ key[i] = "," /\ key[i + 1] = " "

PiecesOf(key) ==
    {SubSeq(key, ij[1], ij[2]) :
        ij \in {p \in (1..(Len(key) + 1)) \X (0..Len(key)) :
                  /\ p[2] >= p[1] - 1
                  /\ (p[1] = 1 \/ CommaSpaceAt(key, p[1] - 2))
                  /\ (p[2] = Len(key) \/ CommaSpaceAt(key, p[2] + 1))
                  /\ \A k \in p[1]..(p[2] - 1) : ~CommaSpaceAt(key, k)}}

\* The extensions a pool key lists, commas and spaces both separating: the
\* maximal stretches free of ',' and ' '.
IsSeparator(c) == c \in {",", " "}

TokensOf(key) ==
    {SubSeq(key, ij[1], ij[2]) :
        ij \in {p \in (1..Len(key)) \X (1..Len(key)) :
                  /\ p[1] <= p[2]
                  /\ \A k \in p[1]..p[2] : ~IsSeparator(key[k])
                  /\ (p[1] = 1 \/ IsSeparator(key[p[1] - 1]))
                  /\ (p[2] = Len(key) \/ IsSeparator(key[p[2] + 1]))}}

\* The provider of the last pool item that lists ext, listed[i] being the
\* extensions item i lists.
LastProvider(ext, listed) ==
    LET at == {i \in DOMAIN provider_pool : ext \in listed[i]} IN
    provider_pool[CHOOSE i \in at : \A j \in at : j <= i][2]

TokensListed == [i \in DOMAIN provider_pool |-> TokensOf(provider_pool[i][1])]
PiecesListed == [i \in DOMAIN provider_pool |-> PiecesOf(provider_pool[i][1])]

-----------------------------------------------------------------------------
(* Claims about Config *)

C4_State ==
    /\ \A cls \in Range(instantiations) : Count(instantiations, cls) = 1
    /\ DOMAIN cached_providers = Range(instantiations)
    /\ last.result \in {"ConfigFile", "ParseError"} =>
          /\ available_extensions[FinalSuffix(last.parsed)] \in DOMAIN cached_providers
          /\ last.provider = cached_providers[available_extensions[FinalSuffix(last.parsed)]]

C4_Step ==
    /\ \A cls \in DOMAIN cached_providers :
          /\ cls \in DOMAIN cached_providers'
          /\ cached_providers'[cls] = cached_providers[cls]
    /\ (calls' = calls + 1 /\ last'.result \in {"ConfigFile", "ParseError"}) =>
          LET cls == available_extensions[FinalSuffix(last'.parsed)] IN
          IF cls \in DOMAIN cached_providers
          THEN /\ instantiations' = instantiations
               /\ last'.provider = cached_providers[cls]
          ELSE /\ instantiations' = Append(instantiations, cls)
               /\ last'.provider \notin 1..(nextId - 1)
    /\ (calls' = calls + 1 /\ last'.result = "ConfigFile") =>
          /\ last'.cf \notin 0..(nextId - 1)
          /\ last'.cf # last'.provider

\* C4: over any sequence of parse_config_file and load_configuration calls
\* on one Config, each provider is instantiated at most once: the first call
\* that maps to it instantiates it and stores it in _cached_providers, every
\* later call that maps to it (through any of its extensions) reuses that
\* instance, a cache entry is never replaced or removed, and each successful
\* call returns a new ConfigFile.
C4_InstantiatedOnce == []C4_State /\ [][C4_Step]_vars

\* After a first call created the provider and a ConfigFile, a second call on
\* a .yml file reused the provider and returned another ConfigFile.
C4_Reused ==
    /\ calls = 2
    /\ instantiations = <<YamlProvider>>
    /\ last.result = "ConfigFile"
    /\ FinalSuffix(last.parsed) = YML
    /\ last.provider = 1 /\ cached_providers[YamlProvider] = 1
    /\ last.cf = 3

\* The prefixes load_configuration is documented to search for one path.
ExplicitThenDefaults(config_path) ==
    (IF config_path = PyNone THEN <<>> ELSE <<Format(config_path)>>) \o CONFIG_PATHS

\* C5: load_configuration returns the parse of the first eligible file of
\* the ordered search and stops there: the explicit path before the default
\* paths, files in expansion order, a file with an unregistered suffix
\* skipped without raising and without being parsed, and None exactly when
\* no visited file has a registered suffix.
C5_FirstEligibleWins ==
    last.op = "load_configuration" =>
        FirstMatchWins(ExplicitThenDefaults(last.arg))

\* A search under the explicit prefix skipped a .ini file (no provider in
\* the default pool) and parsed the .yml file after it.
C5_SkippedThenParsed ==
    /\ last.op = "load_configuration" /\ last.arg = PyStr(X)
    /\ provider_pool = DefaultPool
    /\ disk = << Dot(X, INI), Dot(X, YML) >>
    /\ last.skipped = << Dot(X, INI) >>
    /\ last.parsed = Dot(X, YML)
    /\ last.result = "ConfigFile"

\* The explicit prefix was searched before the default path, whose file
\* comes first in the listing.
C5_ExplicitBeforeDefault ==
    /\ last.op = "load_configuration" /\ last.arg = PyStr(X)
    /\ disk = << CONFIG_PATHS[1], Dot(X, YAML) >>
    /\ last.parsed = Dot(X, YAML)

\* C6: parse_config_file on a path whose final dot-delimited suffix is not
\* registered (a path with no dot included) fails with ValueError and leaves
\* the service unchanged: no provider instantiated, _cached_providers and
\* _available_extensions as before, no ConfigFile produced.
C6_UnsupportedLeavesServiceUnchanged ==
    [][ ( /\ calls' = calls + 1
          /\ last'.op = "parse_config_file"
          /\ ~Registered(last'.arg.items[1]) )
        => /\ last'.result = "ValueError"
           /\ last'.cf = 0 /\ last'.provider = 0 /\ last'.parsed = <<>>
           /\ cached_providers' = cached_providers
           /\ available_extensions' = available_extensions
           /\ instantiations' = instantiations
           /\ nextId' = nextId ]_vars

\* A path with no dot at all was refused while the cache held a provider.
C6_NoDotRefused ==
    /\ last.op = "parse_config_file" /\ last.arg = PyStr(X)
    /\ last.result = "ValueError"
    /\ cached_providers # NoItems
    /\ instantiations = <<YamlProvider>>

\* C7 as stated: commas and spaces both separate the extensions of a pool
\* key; the registry holds exactly one entry per extension of every key,
\* mapped to that key's provider (the later item winning), and no entry
\* holds a separator.
C7_FlattenedOnCommasAndSpaces ==
    phase = "ready" =>
        /\ DOMAIN available_extensions =
              UNION {TokensOf(provider_pool[i][1]) : i \in DOMAIN provider_pool}
        /\ \A ext \in DOMAIN available_extensions :
              /\ \A k \in 1..Len(ext) : ~IsSeparator(ext[k])
              /\ available_extensions[ext] = LastProvider(ext, TokensListed)

\* C7 amended: the separator is exactly ', '; the registry holds exactly one
\* entry per piece of every key cut at ', ', mapped to that key's provider
\* (the later item winning), and no entry holds ', '.
C7_FlattenedOnCommaSpace ==
    phase = "ready" =>
        /\ DOMAIN available_extensions =
              UNION {PiecesOf(provider_pool[i][1]) : i \in DOMAIN provider_pool}
        /\ \A ext \in DOMAIN available_extensions :
              /\ \A k \in 1..Len(ext) : ~CommaSpaceAt(ext, k)
              /\ available_extensions[ext] = LastProvider(ext, PiecesListed)

\* 'yaml, yml' then 'yml, ini': three entries, yml mapped to the later
\* provider.
C7_LaterItemWins ==
    /\ phase = "ready"
    /\ provider_pool = << << YAML \o <<",", " ">> \o YML, YamlProvider >>,
                          << YML \o <<",", " ">> \o INI, IniProvider >> >>
    /\ DOMAIN available_extensions = {YAML, YML, INI}
    /\ available_extensions[YAML] = YamlProvider
    /\ available_extensions[YML] = IniProvider
    /\ available_extensions[INI] = IniProvider

\* C8: load_configuration given a list [X, Y] searches each element as its
\* own prefix, in list order, before the default paths.
C8_ListElementsSearched ==
    (last.op = "load_configuration" /\ last.arg.kind = "list") =>
        FirstMatchWins(last.arg.items \o CONFIG_PATHS)

\* The part of C8 the code keeps: one path string is searched as a prefix
\* before the default paths.
C8_StringSearched ==
    (last.op = "load_configuration" /\ last.arg.kind = "str") =>
        FirstMatchWins(last.arg.items \o CONFIG_PATHS)

-----------------------------------------------------------------------------
(* Claims about two callers sharing one Config *)

\* C10: the cache's check-then-insert is not atomic: a provider is
\* instantiated twice, or a caller is left with an instance the cache does
\* not hold, only when one caller's check fell between another caller's
\* check and insert for the same provider; calls whose lookup-and-insert do
\* not interleave never do either.
C10_DuplicateOnlyWhenInterleaved ==
    /\ \A cls \in Range(instantiations) :
          Count(instantiations, cls) > 1 => cls \in overlapped
    /\ \A t \in Callers :
          (threads[t].pc = "parse" /\ threads[t].cls \notin overlapped)
              => cached_providers[threads[t].cls] = threads[t].provider

\* Both callers saw the provider absent, both instantiated it, and the
\* second insert replaced the first caller's instance in the cache.
C10_LostUpdate ==
    /\ threads["t1"].pc = "parse" /\ threads["t2"].pc = "parse"
    /\ threads["t1"].cls = threads["t2"].cls
    /\ threads["t1"].provider # threads["t2"].provider
    /\ cached_providers[threads["t1"].cls] = threads["t2"].provider
    /\ Count(instantiations, threads["t1"].cls) = 2

=============================================================================
